---------------------------- MODULE Spec2Model ----------------------------
(***************************************************************************)
(* Model of the WinRT central adapter (src/winrtble/adapter.rs).           *)
(*                                                                         *)
(* The adapter owns a watcher behind a mutex (the scan session) and a      *)
(* shared manager (the peripheral registry and the event channel).  The    *)
(* platform invokes the notification callback registered by start_scan on  *)
(* its own threads; application tasks call start_scan, stop_scan,          *)
(* connected_peripherals and events.                                       *)
(*                                                                         *)
(* BLEWatcher, AdapterManager and Peripheral are not part of the source    *)
(* tree at hand; their operations (WatcherStart, WatcherStop, Merge,       *)
(* Insert, Emit, EventStream) follow the behaviour the design document     *)
(* states for the scan session, the registry and the event bus.            *)
(***************************************************************************)
EXTENDS Integers, Sequences, FiniteSets, TLC

\* ------------------------------------------------------------- bounds --
MaxAddr == 2          \* device addresses 1..MaxAddr
MaxNotifs == 2        \* notifications the platform delivers in a run
MaxScanOps == 3       \* start_scan and stop_scan calls in a run
MaxRegScanOps == 2    \* the same, in the runs that also connect
MaxConnOps == 1       \* connected_peripherals calls in a run
MaxCand == 2          \* candidates a platform enumeration returns
MaxSubs == 2          \* event subscribers
NumCallbackThreads == 2   \* platform threads that may run the callback
NumCallers == 2           \* application tasks
MaxFairScanOps == 2    \* start_scan and stop_scan calls in the fair runs
MaxQueries == 2       \* peripheral, peripherals and add_peripheral calls
MaxQueryNotifs == 1   \* notifications in the runs that also query

Addr == 1..MaxAddr
Malformed == 0        \* an address that is absent or does not convert
Threads == 1..NumCallbackThreads
Callers == 1..NumCallers
SubIds == 1..MaxSubs
NoOne == 0

\* ----------------------------------------------------- data (pure) -----
\* Properties of a peripheral: 0 stands for "not known".
Absent == 0
Props == [name : 0..2, rssi : 0..1]
\* Peripheral::new(manager, address): a record with nothing known yet.
NewPeripheral == [name |-> Absent, rssi |-> Absent]

\* Peripheral::update_properties(args): a field the advertisement carries
\* overwrites, a field it lacks keeps the previous value.
Merge(old, patch) ==
    [name |-> IF patch.name # Absent THEN patch.name ELSE old.name,
     rssi |-> IF patch.rssi # Absent THEN patch.rssi ELSE old.rssi]

\* What an advertisement carries: the properties above and, possibly,
\* manufacturer data.  In a run: a name, another name with manufacturer
\* data, an RSSI without a name.
Patches ==
    {[name |-> 1, rssi |-> Absent, mfr |-> Absent],
     [name |-> 2, rssi |-> Absent, mfr |-> 1],
     [name |-> Absent, rssi |-> 1, mfr |-> Absent]}
NoPatch == [name |-> Absent, rssi |-> Absent, mfr |-> Absent]

\* A raw advertisement as the callback receives it.
Notifications ==
    [addr : Addr, patch : Patches]
      \cup {[addr |-> Malformed, patch |-> NoPatch]}

\* CentralEvent, identity only.
Discovered(a) == <<"DeviceDiscovered", a>>
Updated(a) == <<"DeviceUpdated", a>>
ManufacturerData(a) == <<"ManufacturerDataAdvertisement", a>>

\* ScanFilter.services: a list of distinct service UUIDs, possibly empty.
Filters == {<<>>, <<1>>, <<1, 2>>}

\* The filtering of connected_peripherals: the UUID compared against every
\* service of a candidate is the first element of the filter.
ServiceFilter(filter) == filter[1]
Matches(svcs, filter) == ServiceFilter(filter) \in svcs

VARIABLES
    alive,        \* the process has not been aborted
    policy,       \* what WatcherStart does when already scanning
    scanning,     \* scan session state: TRUE = Scanning, FALSE = Idle
    handlers,     \* notification callbacks registered with the platform
    wlock,        \* holder of the watcher mutex, NoOne when free
    poisoned,     \* the watcher mutex was held by a task that panicked
    cpc,          \* per caller: position in the call it is running
    cres,         \* per caller: result of its last finished call
    cfilter,      \* per caller: filter of the running connected_peripherals
    cexam,        \* per caller: candidates examined so far, in order
    tpc,          \* per callback thread: position in the callback
    targ,         \* per callback thread: the notification being processed
    guard,        \* per address: thread holding the entry's mutable ref
    peripherals,  \* the registry: address -> properties
    inbox,        \* per subscriber: events delivered, in delivery order
    emitted,      \* history: every event emitted, in emission order
    subAt,        \* history: per subscriber, Len(emitted) and the addresses
                  \* not yet advertised when it subscribed
    taken,        \* per subscriber: events it has taken from its stream
    got,          \* what the last peripheral, peripherals or add_peripheral
                  \* call was asked and what it returned
    created,      \* history: per address, entries created by the callback
    expected,     \* history: per address, fold of the patches that arrived
    cbPanicked,   \* history: a callback invocation has panicked
    lastStop,     \* history: start_scan calls returned before the last Ok stop
    startsSince,  \* history: start_scan calls the watcher accepted or
                  \* rejected as AlreadyScanning since the last stop
    left          \* what the environment may still do in this run

vars == <<alive, policy, scanning, handlers, wlock, poisoned, cpc, cres,
          cfilter, cexam, tpc, targ, guard, peripherals, inbox, emitted,
          subAt, taken, got, created, expected, cbPanicked, lastStop,
          startsSince, left>>

sessionVars == <<scanning, handlers>>
lockVars == <<wlock, poisoned>>
callerVars == <<cpc, cres, cfilter, cexam>>
threadVars == <<tpc, targ>>
busVars == <<inbox, emitted, subAt, taken>>
registryVars == <<peripherals, guard>>
histVars == <<created, expected, lastStop, startsSince, cbPanicked>>
envVars == <<alive, policy>>

NoNotification == [addr |-> Malformed, patch |-> NoPatch]

\* No peripheral, peripherals or add_peripheral call has returned yet.
NoQuery == [op |-> "none", id |-> Malformed, res |-> "None", val |-> <<>>]

\* Adapter::new(): an idle watcher, an empty manager.
InitWith(budget) ==
    /\ alive = TRUE
    /\ policy \in {"strict", "restart"}
    /\ scanning = FALSE
    /\ handlers = 0
    /\ wlock = NoOne
    /\ poisoned = FALSE
    /\ cpc = [c \in Callers |-> "idle"]
    /\ cres = [c \in Callers |-> "None"]
    /\ cfilter = [c \in Callers |-> <<>>]
    /\ cexam = [c \in Callers |-> <<>>]
    /\ tpc = [t \in Threads |-> "idle"]
    /\ targ = [t \in Threads |-> NoNotification]
    /\ guard = [a \in Addr |-> NoOne]
    /\ peripherals = <<>>
    /\ inbox = <<>>
    /\ emitted = <<>>
    /\ subAt = <<>>
    /\ taken = <<>>
    /\ got = NoQuery
    /\ created = [a \in Addr |-> 0]
    /\ expected = [a \in Addr |-> NewPeripheral]
    /\ cbPanicked = FALSE
    /\ lastStop = 0
    /\ startsSince = 0
    /\ left = budget

\* ------------------------------------------ manager, watcher (helpers) --
\* AdapterManager::add_peripheral: the registry is keyed by address, so an
\* insert under a key already present replaces what was there.
Insert(reg, a, p) ==
    [x \in DOMAIN reg \cup {a} |-> IF x = a THEN p ELSE reg[x]]

\* AdapterManager::emit: the event reaches every current subscriber and is
\* buffered for it; the emitter never waits.
Emit(e) ==
    /\ inbox' = [s \in DOMAIN inbox |-> Append(inbox[s], e)]
    /\ emitted' = Append(emitted, e)
    /\ UNCHANGED <<subAt, taken>>

\* AdapterManager::event_stream: a new subscriber with nothing buffered.
EventStream(s) ==
    /\ inbox' = Insert(inbox, s, <<>>)
    /\ subAt' = Insert(subAt, s,
                       [pos |-> Len(emitted),
                        fresh |-> {a \in Addr :
                                     expected[a] = NewPeripheral}])
    /\ taken' = Insert(taken, s, 0)
    /\ UNCHANGED emitted

\* BLEWatcher::start: what the call returns.  platformOk is whether the
\* platform accepts the request.
WatcherStartResult(platformOk) ==
    IF ~platformOk THEN "PlatformUnavailable"
    ELSE IF scanning /\ policy = "strict" THEN "AlreadyScanning"
    ELSE "Ok"

\* BLEWatcher::start: on success the callback is the one registered handler
\* and the session is Scanning; on failure nothing changes.
WatcherStart(platformOk) ==
    IF WatcherStartResult(platformOk) = "Ok"
    THEN scanning' = TRUE /\ handlers' = 1
    ELSE UNCHANGED sessionVars

\* BLEWatcher::stop: a no-op success when Idle; otherwise the platform is
\* asked to stop and may refuse.
WatcherStopResult(platformOk) ==
    IF scanning /\ ~platformOk THEN "PlatformUnavailable" ELSE "Ok"

WatcherStop(platformOk) ==
    IF scanning /\ platformOk
    THEN scanning' = FALSE /\ handlers' = 0
    ELSE UNCHANGED sessionVars

\* Callers and callback threads are interchangeable: a new call or a new
\* callback invocation takes the lowest-numbered one that is free.
FreeCaller(c) ==
    /\ c <= left.tasks
    /\ cpc[c] = "idle"
    /\ \A d \in Callers : d < c => cpc[d] # "idle"

FreeThread(t) ==
    /\ tpc[t] = "idle"
    /\ \A u \in Threads : u < t => tpc[u] # "idle"

Spend(kind) ==
    /\ left[kind] > 0
    /\ left' = [left EXCEPT ![kind] = @ - 1]

BeginCall(c, kind, pc, filter) ==
    /\ FreeCaller(c)
    /\ Spend(kind)
    /\ cpc' = [cpc EXCEPT ![c] = pc]
    /\ cfilter' = [cfilter EXCEPT ![c] = filter]
    /\ cexam' = [cexam EXCEPT ![c] = <<>>]

\* The call returns: what it examined goes away with its frame.
Return(c, result) ==
    /\ cpc' = [cpc EXCEPT ![c] = "idle"]
    /\ cres' = [cres EXCEPT ![c] = result]
    /\ cfilter' = [cfilter EXCEPT ![c] = <<>>]
    /\ cexam' = [cexam EXCEPT ![c] = <<>>]

\* The task running the call panics.
Panic(c) == Return(c, "Panic")

\* ------------------------------------------------------- start_scan ----
\* start_scan is called: the task is at self.watcher.lock().
StartScanCall(c) ==
    /\ alive
    /\ BeginCall(c, "scan", "start_scan", <<>>)
    /\ cres' = [cres EXCEPT ![c] = "Running"]
    /\ UNCHANGED <<envVars, got, sessionVars, lockVars, threadVars,
                   registryVars, busVars, histVars>>

\* self.watcher.lock().unwrap(): waits for the mutex; on a poisoned mutex
\* lock() returns an error and unwrap panics (the guard inside the error
\* is dropped, so the mutex is free again).
StartScanLock(c) ==
    /\ alive
    /\ cpc[c] = "start_scan"
    /\ wlock = NoOne
    /\ IF poisoned
       THEN /\ Panic(c)
            /\ UNCHANGED wlock
       ELSE /\ wlock' = c
            /\ cpc' = [cpc EXCEPT ![c] = "start_locked"]
            /\ UNCHANGED <<cres, cfilter, cexam>>
    /\ UNCHANGED <<envVars, got, sessionVars, poisoned, threadVars,
                   registryVars, busVars, histVars, left>>

\* watcher.start(filter, callback) completes while the guard is held; its
\* result is the result of start_scan, and the guard is dropped on return.
StartScanReturn(c) ==
    /\ alive
    /\ cpc[c] = "start_locked"
    /\ \E platformOk \in BOOLEAN :
         /\ WatcherStart(platformOk)
         /\ Return(c, WatcherStartResult(platformOk))
         /\ startsSince' =
              IF WatcherStartResult(platformOk) = "PlatformUnavailable"
              THEN startsSince ELSE startsSince + 1
    /\ wlock' = NoOne
    /\ UNCHANGED <<envVars, got, poisoned, threadVars, registryVars, busVars,
                   created, expected, lastStop, cbPanicked, left>>

\* -------------------------------------------------------- stop_scan ----
StopScanCall(c) ==
    /\ alive
    /\ BeginCall(c, "scan", "stop_scan", <<>>)
    /\ cres' = [cres EXCEPT ![c] = "Running"]
    /\ UNCHANGED <<envVars, got, sessionVars, lockVars, threadVars,
                   registryVars, busVars, histVars>>

\* self.watcher.lock().unwrap()
StopScanLock(c) ==
    /\ alive
    /\ cpc[c] = "stop_scan"
    /\ wlock = NoOne
    /\ IF poisoned
       THEN /\ Panic(c)
            /\ UNCHANGED wlock
       ELSE /\ wlock' = c
            /\ cpc' = [cpc EXCEPT ![c] = "stop_locked"]
            /\ UNCHANGED <<cres, cfilter, cexam>>
    /\ UNCHANGED <<envVars, got, sessionVars, poisoned, threadVars,
                   registryVars, busVars, histVars, left>>

\* Mutant of StopScanReturn: stop_scan returns Ok(()) without calling
\* watcher.stop().
StopScanReturn_NoStop(c) ==
    /\ alive
    /\ cpc[c] = "stop_locked"
    /\ Return(c, "Ok")
    /\ lastStop' = startsSince
    /\ wlock' = NoOne
    /\ UNCHANGED <<envVars, got, sessionVars, poisoned, threadVars, registryVars,
                   busVars, created, expected, startsSince, cbPanicked,
                   left>>

\* Mutant of StopScanReturn: a stop that succeeds also clears the
\* registry.
StopScanReturn_Clearing(c) ==
    /\ alive
    /\ cpc[c] = "stop_locked"
    /\ \E platformOk \in BOOLEAN :
         /\ WatcherStop(platformOk)
         /\ IF WatcherStopResult(platformOk) = "Ok"
            THEN /\ Return(c, "Ok")
                 /\ lastStop' = startsSince
                 /\ peripherals' = <<>>
                 /\ UNCHANGED poisoned
            ELSE /\ Panic(c)
                 /\ poisoned' = TRUE
                 /\ UNCHANGED <<lastStop, peripherals>>
    /\ wlock' = NoOne
    /\ startsSince' = IF scanning' THEN startsSince ELSE 0
    /\ UNCHANGED <<envVars, got, threadVars, guard, busVars, created, expected,
                   cbPanicked, left>>

\* watcher.stop().unwrap(); Ok(()): an error from the watcher panics while
\* the guard is held, which poisons the mutex as the guard unwinds.
StopScanReturn(c) ==
    /\ alive
    /\ cpc[c] = "stop_locked"
    /\ \E platformOk \in BOOLEAN :
         /\ WatcherStop(platformOk)
         /\ IF WatcherStopResult(platformOk) = "Ok"
            THEN /\ Return(c, "Ok")
                 /\ lastStop' = startsSince
                 /\ UNCHANGED poisoned
            ELSE /\ Panic(c)
                 /\ poisoned' = TRUE
                 /\ UNCHANGED lastStop
    /\ wlock' = NoOne
    /\ startsSince' = IF scanning' THEN startsSince ELSE 0
    /\ UNCHANGED <<envVars, got, threadVars, registryVars, busVars, created,
                   expected, cbPanicked, left>>

\* --------------------------------------- the notification callback -----
\* The platform invokes the callback registered by start_scan with a raw
\* advertisement.  args.BluetoothAddress().unwrap() and try_into().unwrap()
\* panic when the address is absent or does not convert; the panic leaves
\* a callback the platform called, which either aborts the process or only
\* ends this invocation.
Notify(t, n) ==
    /\ alive
    /\ scanning /\ handlers > 0
    /\ FreeThread(t)
    /\ Spend("notifs")
    /\ IF n.addr = Malformed
       THEN /\ cbPanicked' = TRUE
            /\ alive' \in BOOLEAN
            /\ UNCHANGED <<threadVars, expected>>
       ELSE /\ tpc' = [tpc EXCEPT ![t] = "lookup"]
            /\ targ' = [targ EXCEPT ![t] = n]
            /\ expected' = [expected EXCEPT
                              ![n.addr] = Merge(@, n.patch)]
            /\ UNCHANGED <<alive, cbPanicked>>
    /\ UNCHANGED <<policy, got, sessionVars, lockVars, callerVars, registryVars,
                   busVars, created, lastStop, startsSince>>

\* Mutant of CbLookup: the callback locks the watcher before it looks the
\* address up, and keeps the guard.
CbLookup_LockingWatcher(t) ==
    /\ alive
    /\ tpc[t] = "lookup"
    /\ wlock = NoOne
    /\ wlock' = -t
    /\ guard[targ[t].addr] = NoOne
    /\ IF targ[t].addr \in DOMAIN peripherals
       THEN /\ guard' = [guard EXCEPT ![targ[t].addr] = t]
            /\ tpc' = [tpc EXCEPT ![t] = "update"]
       ELSE /\ tpc' = [tpc EXCEPT ![t] = "create"]
            /\ UNCHANGED guard
    /\ UNCHANGED <<envVars, got, sessionVars, poisoned, callerVars, targ,
                   peripherals, busVars, histVars, left>>

\* if let Some(mut entry) = manager.peripheral_mut(&address.into()): a hit
\* holds the entry's mutable reference for the whole branch; a miss holds
\* nothing.
CbLookup(t) ==
    /\ alive
    /\ tpc[t] = "lookup"
    /\ guard[targ[t].addr] = NoOne
    /\ IF targ[t].addr \in DOMAIN peripherals
       THEN /\ guard' = [guard EXCEPT ![targ[t].addr] = t]
            /\ tpc' = [tpc EXCEPT ![t] = "update"]
       ELSE /\ tpc' = [tpc EXCEPT ![t] = "create"]
            /\ UNCHANGED guard
    /\ UNCHANGED <<envVars, got, sessionVars, lockVars, callerVars, targ,
                   peripherals, busVars, histVars, left>>

\* entry.value_mut().update_properties(args)
CbUpdate(t) ==
    /\ alive
    /\ tpc[t] = "update"
    /\ peripherals' = [peripherals EXCEPT
                         ![targ[t].addr] = Merge(@, targ[t].patch)]
    /\ tpc' = [tpc EXCEPT ![t] = "emit_updated"]
    /\ UNCHANGED <<envVars, got, sessionVars, lockVars, callerVars, targ, guard,
                   busVars, histVars, left>>

\* manager.emit(CentralEvent::DeviceUpdated(address.into())), then the
\* entry reference goes out of scope.
CbEmitUpdated(t) ==
    /\ alive
    /\ tpc[t] = "emit_updated"
    /\ Emit(Updated(targ[t].addr))
    /\ guard' = [guard EXCEPT ![targ[t].addr] = NoOne]
    /\ tpc' = [tpc EXCEPT ![t] = "idle"]
    /\ targ' = [targ EXCEPT ![t] = NoNotification]
    /\ UNCHANGED <<envVars, got, sessionVars, lockVars, callerVars, peripherals,
                   histVars, left>>

\* Mutant of CbCreate: the new peripheral is built and updated but not
\* handed to the manager.
CbCreate_NotAdding(t) ==
    /\ alive
    /\ tpc[t] = "create"
    /\ guard[targ[t].addr] = NoOne
    /\ created' = [created EXCEPT ![targ[t].addr] = @ + 1]
    /\ tpc' = [tpc EXCEPT ![t] = "emit_discovered"]
    /\ UNCHANGED <<envVars, got, sessionVars, lockVars, callerVars, targ,
                   registryVars, busVars, expected, lastStop, startsSince,
                   cbPanicked, left>>

\* Peripheral::new(..); peripheral.update_properties(args);
\* manager.add_peripheral(peripheral)
CbCreate(t) ==
    /\ alive
    /\ tpc[t] = "create"
    /\ guard[targ[t].addr] = NoOne
    /\ peripherals' = Insert(peripherals, targ[t].addr,
                             Merge(NewPeripheral, targ[t].patch))
    /\ created' = [created EXCEPT ![targ[t].addr] = @ + 1]
    /\ tpc' = [tpc EXCEPT ![t] = "emit_discovered"]
    /\ UNCHANGED <<envVars, got, sessionVars, lockVars, callerVars, targ, guard,
                   busVars, expected, lastStop, startsSince, cbPanicked,
                   left>>

\* Mutant of CbEmitDiscovered: the emit waits until every subscriber has
\* taken what was delivered to it before.
CbEmitDiscovered_Waiting(t) ==
    /\ alive
    /\ tpc[t] = "emit_discovered"
    /\ \A s \in DOMAIN inbox : taken[s] = Len(inbox[s])
    /\ Emit(Discovered(targ[t].addr))
    /\ tpc' = [tpc EXCEPT ![t] = "idle"]
    /\ targ' = [targ EXCEPT ![t] = NoNotification]
    /\ UNCHANGED <<envVars, got, sessionVars, lockVars, callerVars,
                   registryVars, histVars, left>>

\* manager.emit(CentralEvent::DeviceDiscovered(address.into()))
CbEmitDiscovered(t) ==
    /\ alive
    /\ tpc[t] = "emit_discovered"
    /\ Emit(Discovered(targ[t].addr))
    /\ tpc' = [tpc EXCEPT ![t] = "idle"]
    /\ targ' = [targ EXCEPT ![t] = NoNotification]
    /\ UNCHANGED <<envVars, got, sessionVars, lockVars, callerVars,
                   registryVars, histVars, left>>

\* ------------------------------------------- connected_peripherals -----
\* A candidate of the platform's device list: whether it can be opened and
\* its services queried, the services it offers, its address.
Candidates ==
    [addr : Addr, svcs : {{1}, {2}}, st : {"ok"}]
      \cup [addr : {1}, svcs : {{}}, st : {"open_failed", "query_failed"}]

LastExamined(c) == cexam[c][Len(cexam[c])]

\* connected_peripherals(filter) is called.
ConnCall(c, filter) ==
    /\ alive
    /\ BeginCall(c, "conn", "conn_start", filter)
    /\ cres' = [cres EXCEPT ![c] = "Running"]
    /\ UNCHANGED <<envVars, got, sessionVars, lockVars, threadVars,
                   registryVars, busVars, histVars>>

\* let service_filter = filter.services[0] panics on an empty filter; then
\* FindAllAsyncAqsFilter(..).get() either fails (Error::Other) or yields
\* the device list.
ConnEnumerate(c) ==
    /\ alive
    /\ cpc[c] = "conn_start"
    /\ IF cfilter[c] = <<>>
       THEN Panic(c)
       ELSE \E platformOk \in BOOLEAN :
              IF platformOk
              THEN /\ cpc' = [cpc EXCEPT ![c] = "conn_loop"]
                   /\ UNCHANGED <<cres, cfilter, cexam>>
              ELSE Return(c, "Other")
    /\ UNCHANGED <<envVars, got, sessionVars, lockVars, threadVars,
                   registryVars, busVars, histVars, left>>

\* Mutant of ConnNext: every candidate whose services could be queried is
\* taken as a match, whatever the filter.
ConnNext_IgnoreFilter(c, cand) ==
    /\ alive
    /\ cpc[c] = "conn_loop"
    /\ Len(cexam[c]) < MaxCand
    /\ IF cand.st = "query_failed"
       THEN Panic(c)
       ELSE /\ cexam' = [cexam EXCEPT ![c] = Append(@, cand)]
            /\ cpc' = [cpc EXCEPT ![c] =
                         IF cand.st = "ok" THEN "conn_add" ELSE "conn_loop"]
            /\ UNCHANGED <<cres, cfilter>>
    /\ UNCHANGED <<envVars, got, sessionVars, lockVars, threadVars,
                   registryVars, busVars, histVars, left>>

\* One turn of `for device in devices`: the device cannot be opened
\* (continue), its service query fails (unwrap panics), none of its
\* services equals service_filter (next device), or one does.
ConnNext(c, cand) ==
    /\ alive
    /\ cpc[c] = "conn_loop"
    /\ Len(cexam[c]) < MaxCand
    /\ IF cand.st = "query_failed"
       THEN Panic(c)
       ELSE /\ cexam' = [cexam EXCEPT ![c] = Append(@, cand)]
            /\ cpc' = [cpc EXCEPT ![c] =
                         IF cand.st = "ok" /\ Matches(cand.svcs, cfilter[c])
                         THEN "conn_add" ELSE "conn_loop"]
            /\ UNCHANGED <<cres, cfilter>>
    /\ UNCHANGED <<envVars, got, sessionVars, lockVars, threadVars,
                   registryVars, busVars, histVars, left>>

\* The device list is exhausted: Ok(()) after the loop.
ConnExhausted(c) ==
    /\ alive
    /\ cpc[c] = "conn_loop"
    /\ Return(c, "Ok")
    /\ UNCHANGED <<envVars, got, sessionVars, lockVars, threadVars,
                   registryVars, busVars, histVars, left>>

\* Peripheral::new(..); manager.add_peripheral(peripheral)
ConnAdd(c) ==
    /\ alive
    /\ cpc[c] = "conn_add"
    /\ guard[LastExamined(c).addr] = NoOne
    /\ peripherals' = Insert(peripherals, LastExamined(c).addr,
                             NewPeripheral)
    /\ cpc' = [cpc EXCEPT ![c] = "conn_emit"]
    /\ UNCHANGED <<envVars, got, sessionVars, lockVars, cres, cfilter, cexam,
                   threadVars, guard, busVars, histVars, left>>

\* manager.emit(CentralEvent::DeviceDiscovered(address.into()));
\* return Ok(())
ConnEmit(c) ==
    /\ alive
    /\ cpc[c] = "conn_emit"
    /\ Emit(Discovered(LastExamined(c).addr))
    /\ Return(c, "Ok")
    /\ UNCHANGED <<envVars, got, sessionVars, lockVars, threadVars,
                   registryVars, histVars, left>>

\* ---------------------------------------------------------- events -----
\* Mutant of Events: the new stream starts with the events emitted before
\* the subscription.
Events_Replay(c, s) ==
    /\ alive
    /\ BeginCall(c, "events", "idle", <<>>)
    /\ s \in SubIds \ DOMAIN inbox
    /\ \A r \in SubIds : r < s => r \in DOMAIN inbox
    /\ inbox' = Insert(inbox, s, emitted)
    /\ subAt' = Insert(subAt, s,
                       [pos |-> Len(emitted),
                        fresh |-> {a \in Addr :
                                     expected[a] = NewPeripheral}])
    /\ taken' = Insert(taken, s, 0)
    /\ UNCHANGED emitted
    /\ cres' = [cres EXCEPT ![c] = "Ok"]
    /\ UNCHANGED <<envVars, got, sessionVars, lockVars, threadVars,
                   registryVars, histVars>>

\* Ok(self.manager.event_stream())
Events(c, s) ==
    /\ alive
    /\ BeginCall(c, "events", "idle", <<>>)
    /\ s \in SubIds \ DOMAIN inbox
    /\ \A r \in SubIds : r < s => r \in DOMAIN inbox
    /\ EventStream(s)
    /\ cres' = [cres EXCEPT ![c] = "Ok"]
    /\ UNCHANGED <<envVars, got, sessionVars, lockVars, threadVars,
                   registryVars, histVars>>

\* A subscriber takes the next event from its stream; the stream hands out
\* what was buffered for it, oldest first.
Take(s) ==
    /\ alive
    /\ s \in DOMAIN inbox
    /\ taken[s] < Len(inbox[s])
    /\ taken' = [taken EXCEPT ![s] = @ + 1]
    /\ UNCHANGED <<envVars, got, sessionVars, lockVars, callerVars,
                   threadVars, registryVars, inbox, emitted, subAt,
                   histVars, left>>

\* ------------------------------- peripherals, peripheral, add_peripheral --
\* AdapterManager::peripheral(id): the entry under id, if there is one.
Lookup(reg, a) == [x \in {a} \cap DOMAIN reg |-> reg[x]]

\* Ok(self.manager.peripherals())
Peripherals(c) ==
    /\ alive
    /\ BeginCall(c, "queries", "idle", <<>>)
    /\ cres' = [cres EXCEPT ![c] = "Ok"]
    /\ got' = [op |-> "peripherals", id |-> Malformed, res |-> "Ok",
               val |-> peripherals]
    /\ UNCHANGED <<envVars, sessionVars, lockVars, threadVars,
                   registryVars, busVars, histVars>>

\* Mutant of Peripheral: a lookup that misses registers an empty entry
\* under the id and returns it.
Peripheral_Registering(c, a) ==
    /\ alive
    /\ BeginCall(c, "queries", "idle", <<>>)
    /\ cres' = [cres EXCEPT ![c] = "Ok"]
    /\ peripherals' = IF a \in DOMAIN peripherals THEN peripherals
                      ELSE Insert(peripherals, a, NewPeripheral)
    /\ got' = [op |-> "peripheral", id |-> a, res |-> "Ok",
               val |-> Lookup(peripherals', a)]
    /\ UNCHANGED <<envVars, sessionVars, lockVars, threadVars, guard,
                   busVars, histVars>>

\* self.manager.peripheral(id).ok_or(Error::DeviceNotFound)
Peripheral(c, a) ==
    /\ alive
    /\ BeginCall(c, "queries", "idle", <<>>)
    /\ \E res \in {IF a \in DOMAIN peripherals
                    THEN "Ok" ELSE "DeviceNotFound"} :
         /\ cres' = [cres EXCEPT ![c] = res]
         /\ got' = [op |-> "peripheral", id |-> a, res |-> res,
                    val |-> Lookup(peripherals, a)]
    /\ UNCHANGED <<envVars, sessionVars, lockVars, threadVars,
                   registryVars, busVars, histVars>>

\* Mutant of AddPeripheral: the address is registered with an empty record
\* and announced.
AddPeripheral_Registering(c, a) ==
    /\ alive
    /\ BeginCall(c, "queries", "idle", <<>>)
    /\ cres' = [cres EXCEPT ![c] = "Ok"]
    /\ peripherals' = Insert(peripherals, a, NewPeripheral)
    /\ Emit(Discovered(a))
    /\ got' = [op |-> "add_peripheral", id |-> a, res |-> "Ok",
               val |-> Lookup(peripherals', a)]
    /\ UNCHANGED <<envVars, sessionVars, lockVars, threadVars, guard,
                   histVars>>

\* Err(Error::NotSupported(..)): the address is not looked at.
AddPeripheral(c, a) ==
    /\ alive
    /\ BeginCall(c, "queries", "idle", <<>>)
    /\ cres' = [cres EXCEPT ![c] = "NotSupported"]
    /\ got' = [op |-> "add_peripheral", id |-> a, res |-> "NotSupported",
               val |-> <<>>]
    /\ UNCHANGED <<envVars, sessionVars, lockVars, threadVars,
                   registryVars, busVars, histVars>>

\* -------------------------------------------------------------- spec ---
\* The environment of a run: how many application tasks there are and how
\* many calls of each kind and notifications it may still produce.
Budget(tasks, scan, conn, events, n) ==
    [tasks |-> tasks, scan |-> scan, conn |-> conn, events |-> events,
     notifs |-> n, queries |-> 0]

StartScanStep ==
    \/ \E c \in Callers : StartScanCall(c)
    \/ \E c \in Callers : StartScanLock(c)
    \/ \E c \in Callers : StartScanReturn(c)

StopScanStep ==
    \/ \E c \in Callers : StopScanCall(c)
    \/ \E c \in Callers : StopScanLock(c)
    \/ \E c \in Callers : StopScanReturn(c)

CallbackStep ==
    \/ \E t \in Threads, n \in Notifications : Notify(t, n)
    \/ \E t \in Threads : CbLookup(t)
    \/ \E t \in Threads : CbUpdate(t)
    \/ \E t \in Threads : CbEmitUpdated(t)
    \/ \E t \in Threads : CbCreate(t)
    \/ \E t \in Threads : CbEmitDiscovered(t)

ConnStep ==
    \/ \E c \in Callers, f \in Filters : ConnCall(c, f)
    \/ \E c \in Callers : ConnEnumerate(c)
    \/ \E c \in Callers, cand \in Candidates : ConnNext(c, cand)
    \/ \E c \in Callers : ConnExhausted(c)
    \/ \E c \in Callers : ConnAdd(c)
    \/ \E c \in Callers : ConnEmit(c)

EventsStep == \E c \in Callers, s \in SubIds : Events(c, s)

TakeStep == \E s \in SubIds : Take(s)

QueryStep ==
    \/ \E c \in Callers : Peripherals(c)
    \/ \E c \in Callers, a \in Addr : Peripheral(c, a)
    \/ \E c \in Callers, a \in Addr : AddPeripheral(c, a)

\* The scan session and the callback it registers.
ScanInit == InitWith(Budget(NumCallers, MaxScanOps, 0, 0, MaxNotifs))
ScanNext == StartScanStep \/ StopScanStep \/ CallbackStep
SpecScan == ScanInit /\ [][ScanNext]_vars

\* Subscribers beside one scan.
BusInit == InitWith(Budget(1, 1, 0, MaxSubs, MaxNotifs))
BusNext == StartScanStep \/ CallbackStep \/ EventsStep
SpecBus == BusInit /\ [][BusNext]_vars

\* connected_peripherals beside one scan and one subscriber.
ConnInit == InitWith(Budget(1, 1, MaxConnOps, 1, 1))
ConnSpecNext == StartScanStep \/ CallbackStep \/ ConnStep \/ EventsStep
SpecConn == ConnInit /\ [][ConnSpecNext]_vars

\* Everything that touches the registry, beside starts and stops.
RegInit == InitWith(Budget(1, MaxRegScanOps, MaxConnOps, 0, MaxNotifs))
RegNext == StartScanStep \/ StopScanStep \/ CallbackStep \/ ConnStep
SpecReg == RegInit /\ [][RegNext]_vars

\* The calls that only read, beside one scan and connected_peripherals.
QueryInit ==
    InitWith([Budget(1, 1, MaxConnOps, 0, MaxQueryNotifs)
                EXCEPT !.queries = MaxQueries])
QueryNext == StartScanStep \/ CallbackStep \/ ConnStep \/ QueryStep
SpecQuery == QueryInit /\ [][QueryNext]_vars

\* Scheduling: a task that is inside a call, and a platform thread that is
\* inside the callback, eventually takes its next step.  When a call is
\* made, which notification arrives and when, are up to the environment.
CallerProgress(c) ==
    \/ StartScanLock(c) \/ StartScanReturn(c)
    \/ StopScanLock(c) \/ StopScanReturn(c)
    \/ ConnEnumerate(c) \/ ConnExhausted(c) \/ ConnAdd(c) \/ ConnEmit(c)
    \/ \E cand \in Candidates : ConnNext(c, cand)

ThreadProgress(t) ==
    \/ CbLookup(t) \/ CbUpdate(t) \/ CbEmitUpdated(t)
    \/ CbCreate(t) \/ CbEmitDiscovered(t)

Fairness ==
    /\ \A c \in Callers : WF_vars(CallerProgress(c))
    /\ \A t \in Threads : WF_vars(ThreadProgress(t))

\* The subscriber that keeps reading its stream; the others may stop.
Healthy == 1

\* Subscribers that read or not, beside one scan.
FairBusNext == StartScanStep \/ CallbackStep \/ EventsStep \/ TakeStep
SpecFairBus ==
    BusInit /\ [][FairBusNext]_vars /\ Fairness /\ WF_vars(Take(Healthy))

\* Starts, stops and connected_peripherals beside the callback.
FairInit == InitWith(Budget(NumCallers, MaxFairScanOps, MaxConnOps, 0, 1))
FairNext == StartScanStep \/ StopScanStep \/ CallbackStep \/ ConnStep
SpecFair == FairInit /\ [][FairNext]_vars /\ Fairness

\* ------------------------------------------------------------ claims ---
Range(q) == {q[i] : i \in DOMAIN q}

\* The callback is in flight for address a.
InFlight(a) == \E t \in Threads : tpc[t] # "idle" /\ targ[t].addr = a

\* C1: for every address, the callback takes the "create new peripheral"
\* branch (and so announces DeviceDiscovered) at most once in the adapter's
\* lifetime, whatever the interleaving of callbacks.
C1_CreatedOnce ==
    \A a \in Addr :
      /\ created[a] <= 1
      /\ Cardinality({i \in DOMAIN emitted : emitted[i] = Discovered(a)})
           <= 1

\* C2: a subscriber that subscribed before address a was first advertised
\* is never delivered DeviceUpdated(a) before DeviceDiscovered(a).
C2_DiscoveredBeforeUpdated ==
    \A s \in DOMAIN inbox : \A a \in subAt[s].fresh :
      \A i \in DOMAIN inbox[s] :
        inbox[s][i] = Updated(a)
          => \E j \in 1..(i - 1) : inbox[s][j] = Discovered(a)

\* The platform delivers a notification whose address is absent or does
\* not convert: a notification is consumed and no callback thread gets
\* past the address extraction.
MalformedDelivered == left'.notifs < left.notifs /\ tpc' = tpc

\* C3: a notification with a malformed address is dropped: no event, the
\* registry unchanged, no panic, the process alive and the session still
\* Scanning.
C3_MalformedDropped ==
    [][MalformedDelivered =>
         /\ emitted' = emitted
         /\ peripherals' = peripherals
         /\ scanning' = scanning
         /\ alive'
         /\ ~cbPanicked']_vars

\* The addresses the adapter has registered: those for which the callback
\* created an entry, and those connected_peripherals matched.
RegisteredAddrs ==
    {a \in Addr :
       \/ created[a] > 0
       \/ Discovered(a) \in Range(emitted)
       \/ \E c \in Callers :
            cpc[c] = "conn_emit" /\ LastExamined(c).addr = a}

\* C4: the registry lists exactly the addresses that were registered, one
\* entry each, and no step ever removes an entry.
C4_OneEntryPerAddress ==
    /\ [](DOMAIN peripherals = RegisteredAddrs)
    /\ [][DOMAIN peripherals \subseteq DOMAIN peripherals']_vars

\* Both addresses are listed, one of them was advertised again after it
\* was registered, and the scan was stopped after that.
C4_Witness ==
    /\ DOMAIN peripherals = Addr
    /\ \E a \in Addr : Updated(a) \in Range(emitted)
    /\ ~scanning
    /\ lastStop >= 1

\* A property once recorded for an address stays recorded.
NeverErased ==
    \A a \in DOMAIN peripherals :
      /\ peripherals[a].name # Absent => peripherals'[a].name # Absent
      /\ peripherals[a].rssi # Absent => peripherals'[a].rssi # Absent

\* C5: once every notification for an address has been processed, the
\* stored properties are the left fold of the patches in arrival order
\* under "present overwrites, absent keeps"; a later notification never
\* erases a recorded value.
C5_LeftFold ==
    /\ [](\A a \in DOMAIN peripherals :
            ~InFlight(a) => peripherals[a] = expected[a])
    /\ [][NeverErased]_vars

\* Caller c leaves the candidate loop of connected_peripherals by running
\* off the end of the device list.
Exhausted(c) ==
    cpc[c] = "conn_loop" /\ cpc'[c] = "idle" /\ cres'[c] # "Panic"

\* C6: when the candidate list is exhausted without a match,
\* connected_peripherals returns NoMatchingDevice, the registry is
\* unchanged and nothing is emitted.
C6_NoMatchingDevice ==
    [][\A c \in Callers :
         Exhausted(c) =>
           /\ cres'[c] = "NoMatchingDevice"
           /\ peripherals' = peripherals
           /\ emitted' = emitted]_vars

IsMatch(cand, filter) == cand.st = "ok" /\ Matches(cand.svcs, filter)

C9_FailureReturnsError ==
    [][\A c \in Callers :
         /\ cpc[c] \in {"start_locked", "stop_locked"}
         /\ cpc'[c] = "idle"
         /\ cres'[c] # "Ok"
         => /\ cres'[c] # "Panic"
            /\ UNCHANGED sessionVars
            /\ wlock' = NoOne
            /\ ~poisoned']_vars

QueryReturns(op) == left'.queries < left.queries /\ got'.op = op

\* C12: peripheral(id) returns the registered peripheral when id is in the
\* registry and DeviceNotFound exactly when it is not; peripherals()
\* returns what is registered; neither changes the registry or emits.
C12_PureReads ==
    [][/\ QueryReturns("peripheral") =>
            /\ got'.res = (IF got'.id \in DOMAIN peripherals
                           THEN "Ok" ELSE "DeviceNotFound")
            /\ got'.val = Lookup(peripherals, got'.id)
            /\ peripherals' = peripherals
            /\ emitted' = emitted /\ inbox' = inbox
       /\ QueryReturns("peripherals") =>
            /\ got'.res = "Ok"
            /\ got'.val = peripherals
            /\ peripherals' = peripherals
            /\ emitted' = emitted /\ inbox' = inbox]_vars

\* peripheral(id) missed while another address was registered and
\* announced.
C12_Witness ==
    /\ got.op = "peripheral"
    /\ got.res = "DeviceNotFound"
    /\ got.id \notin DOMAIN peripherals
    /\ peripherals # <<>>
    /\ emitted # <<>>

\* C13: add_peripheral returns NotSupported for every address, registered
\* or not, and changes neither the registry, nor the scan session, nor
\* the event feed.
C13_AddPeripheralUnsupported ==
    [][QueryReturns("add_peripheral") =>
         /\ got'.res = "NotSupported"
         /\ \E c \in Callers : cres'[c] = "NotSupported"
         /\ peripherals' = peripherals
         /\ UNCHANGED <<sessionVars, lockVars>>
         /\ emitted' = emitted /\ inbox' = inbox]_vars

\* add_peripheral was refused for an address that is registered, during a
\* scan.
C13_Witness ==
    /\ got.op = "add_peripheral"
    /\ got.res = "NotSupported"
    /\ got.id \in DOMAIN peripherals
    /\ scanning

\* The addresses some emitted event names.
Announced == {emitted[i][2] : i \in DOMAIN emitted}

\* C20: an address named by an emitted DeviceDiscovered or DeviceUpdated
\* is in the registry from the emission on, so peripheral(A) for an
\* announced A never returns DeviceNotFound.
C20_AnnouncedIsRegistered ==
    /\ [](Announced \subseteq DOMAIN peripherals)
    /\ [][Announced \subseteq DOMAIN peripherals']_vars
    /\ [][QueryReturns("peripheral") /\ got'.id \in Announced
            => got'.res = "Ok"]_vars

\* peripheral(A) returned the entry of an announced A while a callback for
\* A was still running.
C20_Witness ==
    /\ got.op = "peripheral"
    /\ got.res = "Ok"
    /\ got.id \in Announced
    /\ InFlight(got.id)

\* Callback thread t finishes its invocation in this step.
CallbackDone(t) == tpc[t] # "idle" /\ tpc'[t] = "idle"

IdentityEvents(a) == {Discovered(a), Updated(a)}

\* C14: a notification for A that carries manufacturer data causes a
\* ManufacturerDataAdvertisement(A) emitted after the notification's
\* DeviceDiscovered(A) or DeviceUpdated(A); no such detail event precedes
\* every identity event of A or is emitted while A is not registered.
C14_DetailAfterIdentity ==
    /\ [](\A a \in Addr : \A j \in DOMAIN emitted :
            emitted[j] = ManufacturerData(a) =>
              /\ a \in DOMAIN peripherals
              /\ \E i \in 1..(j - 1) : emitted[i] \in IdentityEvents(a))
    /\ [][\A t \in Threads :
            CallbackDone(t) /\ targ[t].patch.mfr # Absent =>
              \E i, j \in DOMAIN emitted' :
                /\ i < j
                /\ emitted'[i] \in IdentityEvents(targ[t].addr)
                /\ emitted'[j] = ManufacturerData(targ[t].addr)]_vars

\* C15: in connected_peripherals a candidate that cannot be opened or
\* whose services cannot be queried is skipped: the call stays in its loop
\* and does not panic.
C15_FailureSkipsCandidate ==
    [][\A c \in Callers :
         cpc[c] = "conn_loop" /\ cpc'[c] # "conn_add" /\ cexam'[c] = cexam[c]
           => cpc'[c] = "idle" /\ cres'[c] # "Panic"]_vars

\* C16: when connected_peripherals matches an address already in the
\* registry, the entry keeps the properties recorded for it and no second
\* DeviceDiscovered for the address is emitted.
C16_ExistingEntryKept ==
    /\ [][\A c \in Callers :
            /\ cpc[c] = "conn_add" /\ cpc'[c] = "conn_emit"
            /\ LastExamined(c).addr \in DOMAIN peripherals
            => peripherals' = peripherals]_vars
    /\ [](\A a \in Addr :
            Cardinality({i \in DOMAIN emitted : emitted[i] = Discovered(a)})
              <= 1)

\* C17: connected_peripherals with an empty filter does not panic and
\* takes the first candidate whose services could be queried as a match.
C17_EmptyFilterMatchesAll ==
    [][\A c \in Callers :
         /\ cpc[c] = "conn_start" /\ cfilter[c] = <<>>
              => cres'[c] # "Panic"
         /\ cpc[c] = "conn_loop" /\ cfilter[c] = <<>>
              /\ cexam'[c] # cexam[c] /\ cexam'[c][Len(cexam'[c])].st = "ok"
              => cpc'[c] = "conn_add"]_vars

\* Caller c is inside watcher.start(..) or watcher.stop(), the calls that
\* ask the platform to start or stop discovery.
InPlatformCall(c) == cpc[c] \in {"start_locked", "stop_locked"}

\* C18: no task holds the watcher mutex while the platform start or stop
\* of discovery is in progress.
C18_LockNotHeldAcrossPlatformCall ==
    \A c \in Callers : InPlatformCall(c) => wlock # c

\* A callback thread that is at an emit can take that step.
EmitEnabled(t) ==
    /\ tpc[t] = "emit_updated" => ENABLED CbEmitUpdated(t)
    /\ tpc[t] = "emit_discovered" => ENABLED CbEmitDiscovered(t)

\* At least k events have been delivered to the reading subscriber; it
\* has taken at least k.
HealthyHas(k) ==
    IF Healthy \in DOMAIN inbox THEN Len(inbox[Healthy]) >= k ELSE FALSE
HealthyTook(k) ==
    IF Healthy \in DOMAIN taken THEN taken[Healthy] >= k ELSE FALSE

C19_NoDeadlock ==
    /\ [](wlock # NoOne => wlock \in Callers /\ InPlatformCall(wlock))
    /\ \A c \in Callers :
         (cpc[c] # "idle") ~> (cpc[c] = "idle" \/ ~alive)
    /\ \A t \in Threads :
         (tpc[t] # "idle") ~> (tpc[t] = "idle" \/ ~alive)

\* stop_scan holds the watcher lock while a callback invocation is between
\* its lookup and its emit.
C19_Witness ==
    /\ \E c \in Callers : cpc[c] = "stop_locked" /\ wlock = c
    /\ \E t \in Threads : tpc[t] \in {"update", "create"}

=============================================================================
